---- MODULE Spec2Model ----
(***************************************************************************)
(* Model of the attribute helpers of src/src/proc_macro.rs and of the      *)
(* ArgValue tagged union of src/syn/src/val.rs.                            *)
(*                                                                         *)
(* Every function of the two files is pure; the state machine records the  *)
(* last call made (op), its arguments (arg), what it returned (res), the   *)
(* argument iterator as the call left it (iter) and, for val.rs, the       *)
(* ArgValue the calls act on (v) with the way it was built (origin).       *)
(***************************************************************************)
EXTENDS Naturals, Sequences, FiniteSets

VARIABLES op, arg, res, iter, v, origin

vars == <<op, arg, res, iter, v, origin>>

(***************************************************************************)
(* Bounds of the model.                                                    *)
(***************************************************************************)
\* longest attribute list handed to attr_named_value / attr_list
MaxAttrs == 2
\* longest argument list handed to attr_nested_one_arg / _one_named_value
MaxList == 3
\* number of distinct literal payloads of each literal subtype
NumPayloads == 2
\* number of distinct type expressions
NumTypes == 2

(***************************************************************************)
(* Option and Result                                                       *)
(***************************************************************************)
None == [some |-> FALSE]
Some(x) == [some |-> TRUE, val |-> x]
Ok(x) == [ok |-> TRUE, val |-> x]
Err(e) == [ok |-> FALSE, err |-> e]

RECURSIVE SeqsUpTo(_, _)
SeqsUpTo(S, n) ==
    IF n = 0 THEN {<<>>}
    ELSE LET shorter == SeqsUpTo(S, n - 1)
         IN  shorter \cup {Append(s, x) : s \in {t \in shorter : Len(t) = n - 1}, x \in S}

(***************************************************************************)
(* syn literals.  A literal of subtype K (LitStr, LitByteStr, ...) is a    *)
(* token with a value and a span; Lit is the enum over the subtypes.       *)
(***************************************************************************)
Spans == {"call_site", "src"}
LitKinds == {"Str", "ByteStr", "Byte", "Char", "Int", "Float", "Bool", "Verbatim"}
LitTokens == [value : 1..NumPayloads, span : Spans]
Lit_Str(s) == [kind |-> "Str", inner |-> s]
Lit_ByteStr(s) == [kind |-> "ByteStr", inner |-> s]
Lit_Bool(b) == [kind |-> "Bool", inner |-> b]
Lit_Char(c) == [kind |-> "Char", inner |-> c]
Lit_Int(i) == [kind |-> "Int", inner |-> i]
Lit_Float(f) == [kind |-> "Float", inner |-> f]
Lits == [kind : LitKinds, inner : LitTokens]

(***************************************************************************)
(* proc_macro.rs: attributes, their parsed Meta form, nested arguments     *)
(***************************************************************************)
Names == {"a", "b"}
Examples == {"#[a = \"v\"]"}

\* syn::Path: an optional leading `::` and one or more segments
Paths ==
    { [lead |-> FALSE, segs |-> <<"a">>],
      [lead |-> FALSE, segs |-> <<"b">>],
      [lead |-> FALSE, segs |-> <<"a", "b">>],
      [lead |-> TRUE, segs |-> <<"a">>] }

\* the literals that occur in attribute arguments
AttrLits ==
    { Lit_Str([value |-> 1, span |-> "src"]),
      Lit_Int([value |-> 2, span |-> "src"]) }

Meta_Path(p) == [kind |-> "Path", path |-> p]
Meta_List(p, n) == [kind |-> "List", path |-> p, nested |-> n]
Meta_NameValue(p, l) == [kind |-> "NameValue", path |-> p, lit |-> l]
NestedMeta_Meta(m) == [nm |-> "Meta", meta |-> m]
NestedMeta_Lit(l) == [nm |-> "Lit", lit |-> l]

PathA == [lead |-> FALSE, segs |-> <<"a">>]
PathAB == [lead |-> FALSE, segs |-> <<"a", "b">>]

\* arguments that occur inside a parenthesized attribute
NestedItems ==
    { NestedMeta_Meta(Meta_Path(PathA)),
      NestedMeta_Meta(Meta_Path(PathAB)),
      NestedMeta_Meta(Meta_Path([lead |-> TRUE, segs |-> <<"a">>])),
      NestedMeta_Meta(Meta_NameValue(PathA, Lit_Int([value |-> 2, span |-> "src"]))),
      NestedMeta_Meta(Meta_List(PathA, <<>>)),
      NestedMeta_Lit(Lit_Str([value |-> 1, span |-> "src"])) }

\* the argument lists a parenthesized attribute of the model carries
AttrArgs ==
    { <<>>,
      <<NestedMeta_Meta(Meta_Path(PathA))>>,
      <<NestedMeta_Meta(Meta_Path(PathA)), NestedMeta_Lit(Lit_Str([value |-> 1, span |-> "src"]))>>,
      <<NestedMeta_Lit(Lit_Str([value |-> 1, span |-> "src"])), NestedMeta_Meta(Meta_Path(PathA))>> }

\* the tokens after an attribute's path: nothing, `(args)`, `(tokens that are
\* no argument list)`, `= literal`, `= something else`
Bodies ==
    {[form |-> "empty"]}
    \cup {[form |-> "paren", nested |-> n] : n \in AttrArgs}
    \cup {[form |-> "paren_bad"]}
    \cup {[form |-> "eq_lit", lit |-> l] : l \in AttrLits}
    \cup {[form |-> "eq_other"]}

Attributes == {[path |-> p, body |-> b] : p \in Paths, b \in Bodies}

\* Path::is_ident: no leading colon, exactly one segment, and it is `ident`
is_ident(path, ident) ==
    /\ ~path.lead
    /\ Len(path.segs) = 1
    /\ path.segs[1] = ident

\* Path::get_ident: the single segment of a path that is_ident could match
get_ident(path) ==
    IF ~path.lead /\ Len(path.segs) = 1 THEN Some(path.segs[1]) ELSE None

\* Attribute::parse_meta: the attribute's tokens read as one of the three Meta
\* forms, or an error when they are none of them
parse_meta(attr) ==
    CASE attr.body.form = "empty" -> Ok(Meta_Path(attr.path))
      [] attr.body.form = "paren" -> Ok(Meta_List(attr.path, attr.body.nested))
      [] attr.body.form = "eq_lit" -> Ok(Meta_NameValue(attr.path, attr.body.lit))
      [] OTHER -> Err("parse error")

\* the text format!() builds, kept as its pieces (the source's backquotes are
\* written as quotes)
ErrorText(msg, example) ==
    <<"Attribute macro canonical form '", example, "' violation: ", msg>>

\* proc_macro_err!(attr, msg, example): Err(Error::new(attr.span(), format!(..)))
proc_macro_err(span, msg, example) ==
    Err([span |-> span, text |-> ErrorText(msg, example)])

\* the span of the i-th attribute of the input: its place in the source
AttrSpan(i) == [attr |-> i]

\* the span of a string (the attr_name argument): the macro's call site
StrSpan == [attr |-> 0]

\* what attr_named_value returns once the loop stands at an attribute named ident
named_value_match(attr, span, example) ==
    LET parsed == parse_meta(attr)
    IN  IF parsed.ok
        THEN CASE parsed.val.kind = "Path" ->
                      proc_macro_err(span, "unexpected path argument", example)
               [] parsed.val.kind = "List" ->
                      proc_macro_err(span, "must have form 'name=value', not 'name(value)'", example)
               [] parsed.val.kind = "NameValue" -> Ok(Some(parsed.val.lit))
        ELSE proc_macro_err(span, "wrong format", example)

\* attr_named_value_loop with a loop that returns only at a name=value attribute
\* and walks past an attribute named ident of another form
RECURSIVE attr_named_value_loop_skipping(_, _, _, _)
attr_named_value_loop_skipping(attrs, i, ident, example) ==
    IF i > Len(attrs) THEN Ok(None)
    ELSE IF is_ident(attrs[i].path, ident) /\ attrs[i].body.form = "eq_lit"
         THEN named_value_match(attrs[i], AttrSpan(i), example)
         ELSE attr_named_value_loop_skipping(attrs, i + 1, ident, example)

\* the for loop of attr_named_value from its i-th iteration on
RECURSIVE attr_named_value_loop(_, _, _, _)
attr_named_value_loop(attrs, i, ident, example) ==
    IF i > Len(attrs) THEN Ok(None)
    ELSE IF is_ident(attrs[i].path, ident)
         THEN named_value_match(attrs[i], AttrSpan(i), example)
         ELSE attr_named_value_loop(attrs, i + 1, ident, example)

attr_named_value(input, ident, example) ==
    attr_named_value_loop(input.attrs, 1, ident, example)

\* list_match with the parse error swallowed: the attribute counts as absent
list_match_swallowing(attr, span, example) ==
    LET parsed == parse_meta(attr)
    IN  IF parsed.ok
        THEN CASE parsed.val.kind = "Path" ->
                      proc_macro_err(span, "unexpected path argument", example)
               [] parsed.val.kind = "List" -> Ok(Some(parsed.val.nested))
               [] parsed.val.kind = "NameValue" ->
                      proc_macro_err(span, "unexpected name=value argument", example)
        ELSE Ok(None)

\* what attr_list returns once the loop stands at an attribute named ident
list_match(attr, span, example) ==
    LET parsed == parse_meta(attr)
    IN  IF parsed.ok
        THEN CASE parsed.val.kind = "Path" ->
                      proc_macro_err(span, "unexpected path argument", example)
               [] parsed.val.kind = "List" -> Ok(Some(parsed.val.nested))
               [] parsed.val.kind = "NameValue" ->
                      proc_macro_err(span, "unexpected name=value argument", example)
        ELSE proc_macro_err(span, "wrong format", example)

\* attr_list_loop comparing the path's first segment only, so that `a::b`
\* counts as named `a`
RECURSIVE attr_list_loop_first_segment(_, _, _, _)
attr_list_loop_first_segment(attrs, i, ident, example) ==
    IF i > Len(attrs) THEN Ok(None)
    ELSE IF attrs[i].path.segs[1] = ident
         THEN list_match(attrs[i], AttrSpan(i), example)
         ELSE attr_list_loop_first_segment(attrs, i + 1, ident, example)

\* the for loop of attr_list from its i-th iteration on
RECURSIVE attr_list_loop(_, _, _, _)
attr_list_loop(attrs, i, ident, example) ==
    IF i > Len(attrs) THEN Ok(None)
    ELSE IF is_ident(attrs[i].path, ident)
         THEN list_match(attrs[i], AttrSpan(i), example)
         ELSE attr_list_loop(attrs, i + 1, ident, example)

attr_list(attrs, ident, example) == attr_list_loop(attrs, 1, ident, example)

\* an ExactSizeIterator over the arguments: the items and how many were taken
IterOf(items) == [items |-> items, taken |-> 0]
IterLen(it) == Len(it.items) - it.taken
IterNext(it) ==
    IF it.taken < Len(it.items)
    THEN [item |-> Some(it.items[it.taken + 1]), it |-> [it EXCEPT !.taken = @ + 1]]
    ELSE [item |-> None, it |-> it]

\* the arm of attr_nested_one_arg for the single item
one_arg_item(item, example) ==
    IF item.nm = "Meta"
    THEN IF item.meta.kind = "Path"
         THEN Ok(get_ident(item.meta.path))
         ELSE proc_macro_err(StrSpan, "unexpected attribute type", example)
    ELSE proc_macro_err(StrSpan, "unexpected literal for type identifier is met", example)

\* attr_nested_one_arg with the length matched as "none or some": the first
\* item of a longer list is taken as if it were the only one
attr_nested_one_arg_first_of_many(list, attr_name, example) ==
    CASE IterLen(list) = 0 ->
            [ret |-> proc_macro_err(StrSpan, "unexpected absence of argument", example),
             list |-> list]
      [] OTHER ->
            LET nx == IterNext(list)
            IN  [ret |-> one_arg_item(nx.item.val, example), list |-> nx.it]

\* returns the result and the iterator as the call leaves it
attr_nested_one_arg(list, attr_name, example) ==
    CASE IterLen(list) = 0 ->
            [ret |-> proc_macro_err(StrSpan, "unexpected absence of argument", example),
             list |-> list]
      [] IterLen(list) = 1 ->
            LET nx == IterNext(list)
            IN  [ret |-> one_arg_item(nx.item.val, example), list |-> nx.it]
      [] OTHER ->
            [ret |-> proc_macro_err(StrSpan, "unexpected multiple type identifiers", example),
             list |-> list]

\* the arm of attr_nested_one_named_value for the single item
one_named_value_item(item, example) ==
    IF item.nm = "Meta"
    THEN IF item.meta.kind = "NameValue"
         THEN Ok(item.meta)
         ELSE proc_macro_err(StrSpan, "unexpected attribute type", example)
    ELSE proc_macro_err(StrSpan, "unexpected literal for type identifier is met", example)

attr_nested_one_named_value(list, attr_name, example) ==
    CASE IterLen(list) = 0 ->
            [ret |-> proc_macro_err(StrSpan, "unexpected absence of argument", example),
             list |-> list]
      [] IterLen(list) = 1 ->
            LET nx == IterNext(list)
            IN  [ret |-> one_named_value_item(nx.item.val, example), list |-> nx.it]
      [] OTHER ->
            [ret |-> proc_macro_err(StrSpan, "unexpected multiple type identifiers", example),
             list |-> list]

(***************************************************************************)
(* val.rs: ArgValue and its conversions                                    *)
(***************************************************************************)
ArgValue_Literal(lit) == [tag |-> "Literal", lit |-> lit]
ArgValue_Type(ty) == [tag |-> "Type", ty |-> ty]
ArgValue_None == [tag |-> "None"]
\* an ArgValue that a by-value conversion has consumed
Moved == [tag |-> "Moved"]

Types == [name : 1..NumTypes]
ArgValues ==
    {ArgValue_Literal(l) : l \in Lits} \cup {ArgValue_Type(t) : t \in Types}
        \cup {ArgValue_None}

ArgValueMustBeLiteral == "ArgValueMustBeLiteral"
ArgValueMustBeType == "ArgValueMustBeType"

\* From<Option<LitChar>> wrapping with the constructor of another impl (Lit::Str)
From_Option_LitChar_as_str(val) ==
    IF val.some THEN ArgValue_Literal(Lit_Str(val.val)) ELSE ArgValue_None

\* impl From<Option<LitStr>> for ArgValue, and the five impls after it
From_Option_LitStr(val) ==
    IF val.some THEN ArgValue_Literal(Lit_Str(val.val)) ELSE ArgValue_None
From_Option_LitByteStr(val) ==
    IF val.some THEN ArgValue_Literal(Lit_ByteStr(val.val)) ELSE ArgValue_None
From_Option_LitBool(val) ==
    IF val.some THEN ArgValue_Literal(Lit_Bool(val.val)) ELSE ArgValue_None
From_Option_LitChar(val) ==
    IF val.some THEN ArgValue_Literal(Lit_Char(val.val)) ELSE ArgValue_None
From_Option_LitInt(val) ==
    IF val.some THEN ArgValue_Literal(Lit_Int(val.val)) ELSE ArgValue_None
From_Option_LitFloat(val) ==
    IF val.some THEN ArgValue_Literal(Lit_Float(val.val)) ELSE ArgValue_None

IsLit(self, kind) == self.tag = "Literal" /\ self.lit.kind = kind

\* impl TryInto<String | Vec<u8> | bool | char> for ArgValue: the literal's value
TryInto_String(self) ==
    IF IsLit(self, "Str") THEN Ok(self.lit.inner.value) ELSE Err(ArgValueMustBeLiteral)
TryInto_Vec_u8(self) ==
    IF IsLit(self, "ByteStr") THEN Ok(self.lit.inner.value) ELSE Err(ArgValueMustBeLiteral)
TryInto_bool(self) ==
    IF IsLit(self, "Bool") THEN Ok(self.lit.inner.value) ELSE Err(ArgValueMustBeLiteral)
TryInto_char(self) ==
    IF IsLit(self, "Char") THEN Ok(self.lit.inner.value) ELSE Err(ArgValueMustBeLiteral)

\* impl TryInto<LitStr | LitByteStr | LitBool | LitChar | LitInt | LitFloat>
TryInto_LitStr(self) ==
    IF IsLit(self, "Str") THEN Ok(self.lit.inner) ELSE Err(ArgValueMustBeLiteral)
TryInto_LitByteStr(self) ==
    IF IsLit(self, "ByteStr") THEN Ok(self.lit.inner) ELSE Err(ArgValueMustBeLiteral)
TryInto_LitBool(self) ==
    IF IsLit(self, "Bool") THEN Ok(self.lit.inner) ELSE Err(ArgValueMustBeLiteral)
TryInto_LitChar(self) ==
    IF IsLit(self, "Char") THEN Ok(self.lit.inner) ELSE Err(ArgValueMustBeLiteral)
TryInto_LitInt(self) ==
    IF IsLit(self, "Int") THEN Ok(self.lit.inner) ELSE Err(ArgValueMustBeLiteral)
TryInto_LitFloat(self) ==
    IF IsLit(self, "Float") THEN Ok(self.lit.inner) ELSE Err(ArgValueMustBeLiteral)

\* TryInto<Option<LitInt>> with the pattern of the impl after it (Lit::Float)
TryInto_Option_LitInt_as_float(self) ==
    CASE IsLit(self, "Float") -> Ok(Some(self.lit.inner))
      [] self.tag = "None" -> Ok(None)
      [] OTHER -> Err(ArgValueMustBeLiteral)

\* impl TryInto<Option<LitStr>> for ArgValue, and the five impls after it
TryInto_Option_LitStr(self) ==
    CASE IsLit(self, "Str") -> Ok(Some(self.lit.inner))
      [] self.tag = "None" -> Ok(None)
      [] OTHER -> Err(ArgValueMustBeLiteral)
TryInto_Option_LitByteStr(self) ==
    CASE IsLit(self, "ByteStr") -> Ok(Some(self.lit.inner))
      [] self.tag = "None" -> Ok(None)
      [] OTHER -> Err(ArgValueMustBeLiteral)
TryInto_Option_LitBool(self) ==
    CASE IsLit(self, "Bool") -> Ok(Some(self.lit.inner))
      [] self.tag = "None" -> Ok(None)
      [] OTHER -> Err(ArgValueMustBeLiteral)
TryInto_Option_LitChar(self) ==
    CASE IsLit(self, "Char") -> Ok(Some(self.lit.inner))
      [] self.tag = "None" -> Ok(None)
      [] OTHER -> Err(ArgValueMustBeLiteral)
TryInto_Option_LitInt(self) ==
    CASE IsLit(self, "Int") -> Ok(Some(self.lit.inner))
      [] self.tag = "None" -> Ok(None)
      [] OTHER -> Err(ArgValueMustBeLiteral)
TryInto_Option_LitFloat(self) ==
    CASE IsLit(self, "Float") -> Ok(Some(self.lit.inner))
      [] self.tag = "None" -> Ok(None)
      [] OTHER -> Err(ArgValueMustBeLiteral)

\* the impl the compiler selects for the target type
OptionTargets == {"Str", "ByteStr", "Bool", "Char", "Int", "Float"}
PrimTargets == {"String", "Vec_u8", "bool", "char"}

From_Option(target, val) ==
    CASE target = "Str" -> From_Option_LitStr(val)
      [] target = "ByteStr" -> From_Option_LitByteStr(val)
      [] target = "Bool" -> From_Option_LitBool(val)
      [] target = "Char" -> From_Option_LitChar(val)
      [] target = "Int" -> From_Option_LitInt(val)
      [] target = "Float" -> From_Option_LitFloat(val)

TryInto_Prim(target, self) ==
    CASE target = "String" -> TryInto_String(self)
      [] target = "Vec_u8" -> TryInto_Vec_u8(self)
      [] target = "bool" -> TryInto_bool(self)
      [] target = "char" -> TryInto_char(self)

TryInto_Lit(target, self) ==
    CASE target = "Str" -> TryInto_LitStr(self)
      [] target = "ByteStr" -> TryInto_LitByteStr(self)
      [] target = "Bool" -> TryInto_LitBool(self)
      [] target = "Char" -> TryInto_LitChar(self)
      [] target = "Int" -> TryInto_LitInt(self)
      [] target = "Float" -> TryInto_LitFloat(self)

TryInto_Option(target, self) ==
    CASE target = "Str" -> TryInto_Option_LitStr(self)
      [] target = "ByteStr" -> TryInto_Option_LitByteStr(self)
      [] target = "Bool" -> TryInto_Option_LitBool(self)
      [] target = "Char" -> TryInto_Option_LitChar(self)
      [] target = "Int" -> TryInto_Option_LitInt(self)
      [] target = "Float" -> TryInto_Option_LitFloat(self)

\* literal_value failing with the error of its sibling type_value
literal_value_sibling_error(self) ==
    IF self.tag = "Literal" THEN Ok(self.lit) ELSE Err(ArgValueMustBeType)

literal_value(self) ==
    IF self.tag = "Literal" THEN Ok(self.lit) ELSE Err(ArgValueMustBeLiteral)

\* type_value with the None variant left out of the failing arm's test
type_value_literal_only(self) ==
    IF self.tag = "Literal"
    THEN Err(ArgValueMustBeType)
    ELSE Ok(IF self.tag = "Type" THEN self.ty ELSE [name |-> 0])

type_value(self) ==
    IF self.tag = "Literal" \/ self.tag = "None"
    THEN Err(ArgValueMustBeType)
    ELSE Ok(self.ty)

is_none(self) == IF self.tag = "None" THEN TRUE ELSE FALSE

\* is_some matching the Literal variant alone
is_some_literal_only(self) == IF self.tag = "Literal" THEN TRUE ELSE FALSE

is_some(self) == IF self.tag = "None" THEN FALSE ELSE TRUE

\* ValueClass::from(&Lit) and ValueClass::from(&Type): a class of its own for
\* literals and for types
ValueClass_from_lit(lit) == [class |-> "Literal", of |-> lit.kind]
ValueClass_from_type(ty) == [class |-> "Type", ty |-> ty.name]

value_class(self) ==
    CASE self.tag = "Literal" -> Some(ValueClass_from_lit(self.lit))
      [] self.tag = "Type" -> Some(ValueClass_from_type(self.ty))
      [] self.tag = "None" -> None

(***************************************************************************)
(* The calls                                                               *)
(***************************************************************************)
NoArg == [none |-> TRUE]
NoRes == [none |-> TRUE]
Given == [how |-> "given"]

\* the inputs of one macro invocation: an attribute list to search for a name,
\* or the argument list of one attribute
AttrInputs ==
    [attrs : SeqsUpTo(Attributes, MaxAttrs), ident : Names, example : Examples]
ListInputs ==
    [list : SeqsUpTo(NestedItems, MaxList), attr_name : Names, example : Examples]

\* proc_macro.rs: the inputs are there and no call has been made
InitAttr ==
    /\ op = "init"
    /\ arg \in AttrInputs \cup ListInputs
    /\ res = NoRes
    /\ iter = IF "list" \in DOMAIN arg THEN IterOf(arg.list) ELSE IterOf(<<>>)
    /\ v = ArgValue_None
    /\ origin = Given

Call_attr_named_value ==
    /\ op = "init"
    /\ "attrs" \in DOMAIN arg
    /\ op' = "attr_named_value"
    /\ res' = attr_named_value([attrs |-> arg.attrs], arg.ident, arg.example)
    /\ UNCHANGED <<arg, iter, v, origin>>

Call_attr_list ==
    /\ op = "init"
    /\ "attrs" \in DOMAIN arg
    /\ op' = "attr_list"
    /\ res' = attr_list(arg.attrs, arg.ident, arg.example)
    /\ UNCHANGED <<arg, iter, v, origin>>

Call_attr_nested_one_arg ==
    /\ op = "init"
    /\ "list" \in DOMAIN arg
    /\ LET r == attr_nested_one_arg(iter, arg.attr_name, arg.example)
       IN  /\ op' = "attr_nested_one_arg"
           /\ res' = r.ret
           /\ iter' = r.list
    /\ UNCHANGED <<arg, v, origin>>

Call_attr_nested_one_named_value ==
    /\ op = "init"
    /\ "list" \in DOMAIN arg
    /\ LET r == attr_nested_one_named_value(iter, arg.attr_name, arg.example)
       IN  /\ op' = "attr_nested_one_named_value"
           /\ res' = r.ret
           /\ iter' = r.list
    /\ UNCHANGED <<arg, v, origin>>

NextAttr ==
    \/ Call_attr_named_value
    \/ Call_attr_list
    \/ Call_attr_nested_one_arg
    \/ Call_attr_nested_one_named_value

SpecAttr == InitAttr /\ [][NextAttr]_vars

\* val.rs: some ArgValue has been constructed
InitVal ==
    /\ op = "init"
    /\ arg = NoArg
    /\ res = NoRes
    /\ iter = IterOf(<<>>)
    /\ v \in ArgValues
    /\ origin = Given

\* ArgValue::from(val) for an optional literal val
Call_from_option ==
    \E target \in OptionTargets, val \in {None} \cup {Some(t) : t \in LitTokens} :
        /\ op' = "from_option"
        /\ arg' = [target |-> target, val |-> val]
        /\ v' = From_Option(target, val)
        /\ origin' = [how |-> "from_option", target |-> target, val |-> val]
        /\ res' = NoRes
        /\ UNCHANGED iter

\* the methods taking &self leave the value in place
Call_literal_value ==
    /\ v # Moved
    /\ op' = "literal_value"
    /\ arg' = [self |-> v]
    /\ res' = literal_value(v)
    /\ UNCHANGED <<iter, v, origin>>

Call_type_value ==
    /\ v # Moved
    /\ op' = "type_value"
    /\ arg' = [self |-> v]
    /\ res' = type_value(v)
    /\ UNCHANGED <<iter, v, origin>>

Call_is_none ==
    /\ v # Moved
    /\ op' = "is_none"
    /\ arg' = [self |-> v]
    /\ res' = [bool |-> is_none(v)]
    /\ UNCHANGED <<iter, v, origin>>

Call_is_some ==
    /\ v # Moved
    /\ op' = "is_some"
    /\ arg' = [self |-> v]
    /\ res' = [bool |-> is_some(v)]
    /\ UNCHANGED <<iter, v, origin>>

Call_value_class ==
    /\ v # Moved
    /\ op' = "value_class"
    /\ arg' = [self |-> v]
    /\ res' = value_class(v)
    /\ UNCHANGED <<iter, v, origin>>

\* try_into(self) consumes the value
Call_try_into_prim ==
    \E target \in PrimTargets :
        /\ v # Moved
        /\ op' = "try_into_prim"
        /\ arg' = [self |-> v, target |-> target]
        /\ res' = TryInto_Prim(target, v)
        /\ v' = Moved
        /\ UNCHANGED <<iter, origin>>

Call_try_into_lit ==
    \E target \in OptionTargets :
        /\ v # Moved
        /\ op' = "try_into_lit"
        /\ arg' = [self |-> v, target |-> target]
        /\ res' = TryInto_Lit(target, v)
        /\ v' = Moved
        /\ UNCHANGED <<iter, origin>>

Call_try_into_option ==
    \E target \in OptionTargets :
        /\ v # Moved
        /\ op' = "try_into_option"
        /\ arg' = [self |-> v, target |-> target]
        /\ res' = TryInto_Option(target, v)
        /\ v' = Moved
        /\ UNCHANGED <<iter, origin>>

NextVal ==
    \/ Call_from_option
    \/ Call_literal_value
    \/ Call_type_value
    \/ Call_is_none
    \/ Call_is_some
    \/ Call_value_class
    \/ Call_try_into_prim
    \/ Call_try_into_lit
    \/ Call_try_into_option

SpecVal == InitVal /\ [][NextVal]_vars

(***************************************************************************)
(* The claims about proc_macro.rs, checked under SpecAttr                  *)
(***************************************************************************)
\* the attribute is named `ident`: its path is that single name
Named(attr, ident) == attr.path = [lead |-> FALSE, segs |-> <<ident>>]

\* the place of the first attribute named `ident`, 0 when there is none
FirstNamed(attrs, ident) ==
    LET hits == {i \in 1..Len(attrs) : Named(attrs[i], ident)}
    IN  IF hits = {} THEN 0 ELSE CHOOSE i \in hits : \A j \in hits : i <= j

HasPathForm(attr) == attr.body.form = "empty"
HasListForm(attr) == attr.body.form = "paren"
HasNameValueForm(attr) == attr.body.form = "eq_lit"
Unparsable(attr) == ~HasPathForm(attr) /\ ~HasListForm(attr) /\ ~HasNameValueForm(attr)

IsOkNone(r) == r.ok /\ ~r.val.some
IsOkSome(r, x) == r.ok /\ r.val.some /\ r.val.val = x
\* the message of an error, without the canonical-form preamble
Message(r) == r.err.text[4]

\* C1: attr_named_value is decided by the first attribute named ident alone:
\* Ok(Some(its literal)) when it has the name=value form, an error when it has
\* the bare-path or the parenthesized-list form whatever follows it, and
\* Ok(None) exactly when no attribute is named ident.
C1_NamedValueFirstMatch ==
    op = "attr_named_value" =>
        LET k == FirstNamed(arg.attrs, arg.ident)
        IN  /\ IsOkNone(res) <=> k = 0
            /\ k # 0 /\ HasNameValueForm(arg.attrs[k])
                  => IsOkSome(res, arg.attrs[k].body.lit)
            /\ k # 0 /\ (HasPathForm(arg.attrs[k]) \/ HasListForm(arg.attrs[k]))
                  => ~res.ok /\ res.err.span = AttrSpan(k)

\* the first attribute named ident is a bare path, a later one named ident has
\* the name=value form, and the call fails
C1_Witness ==
    /\ op = "attr_named_value"
    /\ Len(arg.attrs) = 2
    /\ Named(arg.attrs[1], arg.ident) /\ HasPathForm(arg.attrs[1])
    /\ Named(arg.attrs[2], arg.ident) /\ HasNameValueForm(arg.attrs[2])
    /\ ~res.ok

\* C2: attr_list is decided by the first attribute named ident: Ok(Some(items))
\* with its arguments in their order and number when it has the
\* parenthesized-list form, an error when it has the bare-path or the name=value
\* form, and Ok(None) exactly when no attribute is named ident.
C2_ListFirstMatch ==
    op = "attr_list" =>
        LET k == FirstNamed(arg.attrs, arg.ident)
        IN  /\ IsOkNone(res) <=> k = 0
            /\ k # 0 /\ HasListForm(arg.attrs[k])
                  => /\ res.ok /\ res.val.some
                     /\ Len(res.val.val) = Len(arg.attrs[k].body.nested)
                     /\ \A i \in 1..Len(res.val.val) :
                            res.val.val[i] = arg.attrs[k].body.nested[i]
            /\ k # 0 /\ (HasPathForm(arg.attrs[k]) \/ HasNameValueForm(arg.attrs[k]))
                  => ~res.ok /\ res.err.span = AttrSpan(k)

\* the second attribute is the first one named ident and carries two different
\* arguments, which come back in their order
C2_Witness ==
    /\ op = "attr_list"
    /\ Len(arg.attrs) = 2
    /\ ~Named(arg.attrs[1], arg.ident)
    /\ Named(arg.attrs[2], arg.ident) /\ HasListForm(arg.attrs[2])
    /\ Len(arg.attrs[2].body.nested) = 2
    /\ arg.attrs[2].body.nested[1] # arg.attrs[2].body.nested[2]
    /\ res.ok /\ res.val.some /\ res.val.val = arg.attrs[2].body.nested

\* the violation shape a message reports
Shape(msg) ==
    CASE msg = "unexpected path argument" -> "unexpected path argument"
      [] msg \in {"must have form 'name=value', not 'name(value)'",
                  "unexpected name=value argument",
                  "unexpected attribute type"} -> "wrong list-vs-value form"
      [] msg \in {"unexpected absence of argument",
                  "unexpected multiple type identifiers"} -> "wrong argument count"
      [] msg = "unexpected literal for type identifier is met" -> "wrong literal kind"
      [] OTHER -> "other"

FourShapes ==
    {"unexpected path argument", "wrong list-vs-value form", "wrong argument count",
     "wrong literal kind"}

IsCall == op # "init"

\* C3 as stated: every error of the four functions has one of the four shapes
C3_OnlyFourShapes == IsCall /\ ~res.ok => Shape(Message(res)) \in FourShapes

\* C3, amended: every error has one of the four shapes or is the "wrong format"
\* error, which attr_named_value and attr_list report exactly when the tokens of
\* the first attribute named ident parse as none of the three forms.
C3_FourShapesOrWrongFormat ==
    IsCall =>
        LET undecidable ==
                /\ op \in {"attr_named_value", "attr_list"}
                /\ FirstNamed(arg.attrs, arg.ident) # 0
                /\ Unparsable(arg.attrs[FirstNamed(arg.attrs, arg.ident)])
        IN  /\ undecidable => ~res.ok /\ Message(res) = "wrong format"
            /\ ~res.ok /\ ~undecidable => Shape(Message(res)) \in FourShapes

\* an attribute named ident whose tokens are no Meta makes attr_list fail with
\* the fifth message
C3_Witness ==
    /\ op = "attr_list"
    /\ FirstNamed(arg.attrs, arg.ident) # 0
    /\ Unparsable(arg.attrs[FirstNamed(arg.attrs, arg.ident)])
    /\ ~res.ok
    /\ Message(res) = "wrong format"

IsPathItem(item) == item.nm = "Meta" /\ item.meta.kind = "Path"
IsNameValueItem(item) == item.nm = "Meta" /\ item.meta.kind = "NameValue"

\* C4: both one-argument functions sort the list by its length: none gives the
\* absence error and more than one the multiple-identifiers error, with no
\* item taken; a single item is taken, and the call succeeds only on a bare
\* path (attr_nested_one_arg) or a name=value pair (attr_nested_one_named_value).
C4_ZeroOneMany ==
    op \in {"attr_nested_one_arg", "attr_nested_one_named_value"} =>
        /\ Len(arg.list) = 0 =>
              /\ ~res.ok /\ Message(res) = "unexpected absence of argument"
              /\ iter.taken = 0
        /\ Len(arg.list) >= 2 =>
              /\ ~res.ok /\ Message(res) = "unexpected multiple type identifiers"
              /\ iter.taken = 0
        /\ Len(arg.list) = 1 =>
              /\ iter.taken = 1
              /\ res.ok /\ op = "attr_nested_one_arg" => IsPathItem(arg.list[1])
              /\ res.ok /\ op = "attr_nested_one_named_value"
                    => IsNameValueItem(arg.list[1])

\* a list of two bare paths is refused untouched
C4_Witness ==
    /\ op = "attr_nested_one_arg"
    /\ Len(arg.list) = 2
    /\ IsPathItem(arg.list[1]) /\ IsPathItem(arg.list[2])
    /\ ~res.ok
    /\ iter.taken = 0

\* C5 as stated: whenever attr_nested_one_arg returns Ok, the result carries
\* an identifier
C5_OkCarriesIdent == op = "attr_nested_one_arg" /\ res.ok => res.val.some

(***************************************************************************)
(* The claims about val.rs, checked under SpecVal                          *)
(***************************************************************************)
IsErr(r, e) == ~r.ok /\ r.err = e

\* C6: literal_value returns Ok(the held literal) on the Literal variant and
\* fails with ArgValueMustBeLiteral on the Type and None variants; the value it
\* was called on is unchanged.
C6_LiteralValue ==
    op = "literal_value" =>
        /\ v = arg.self
        /\ arg.self.tag = "Literal" => res.ok /\ res.val = arg.self.lit
        /\ arg.self.tag \in {"Type", "None"} => IsErr(res, ArgValueMustBeLiteral)

\* literal_value has failed on a type, which is still there
C6_Witness ==
    /\ op = "literal_value"
    /\ v.tag = "Type"
    /\ IsErr(res, ArgValueMustBeLiteral)

\* C7: type_value returns Ok(the held type) on the Type variant and fails with
\* ArgValueMustBeType on the Literal and None variants; on no value do
\* literal_value and type_value both succeed, and both fail exactly on None.
C7_TypeValue ==
    /\ op = "type_value" =>
          /\ arg.self.tag = "Type" => res.ok /\ res.val = arg.self.ty
          /\ arg.self.tag \in {"Literal", "None"} => IsErr(res, ArgValueMustBeType)
    /\ v # Moved =>
          /\ ~(literal_value(v).ok /\ type_value(v).ok)
          /\ (~literal_value(v).ok /\ ~type_value(v).ok) <=> v.tag = "None"

\* type_value has failed on the None variant
C7_Witness ==
    /\ op = "type_value"
    /\ v.tag = "None"
    /\ IsErr(res, ArgValueMustBeType)

\* C8: is_none is true exactly on the None variant, is_some is its negation,
\* and value_class returns a class exactly when is_some is true.
C8_NoneSomeClass ==
    /\ op = "is_none" => (res.bool <=> arg.self.tag = "None")
    /\ op = "is_some" => (res.bool <=> arg.self.tag # "None")
    /\ op = "value_class" => (res.some <=> arg.self.tag # "None")
    /\ v # Moved =>
          /\ is_some(v) <=> ~is_none(v)
          /\ value_class(v).some <=> is_some(v)

\* is_some has answered true for a type
C8_Witness ==
    /\ op = "is_some"
    /\ v.tag = "Type"
    /\ res.bool

\* the literal subtype each conversion target stands for
SubtypeOf(target) ==
    CASE target = "String" -> "Str"
      [] target = "Vec_u8" -> "ByteStr"
      [] target = "bool" -> "Bool"
      [] target = "char" -> "Char"
      [] OTHER -> target

Holds(self, target) == self.tag = "Literal" /\ self.lit.kind = SubtypeOf(target)

\* C9: the conversion into the non-optional K succeeds exactly on a Literal of
\* subtype K and fails with ArgValueMustBeLiteral on any other literal, on a
\* Type and on None; the conversion into the optional K differs only in that
\* None yields Ok(None).
C9_TryInto ==
    /\ op \in {"try_into_prim", "try_into_lit"} =>
          /\ res.ok <=> Holds(arg.self, arg.target)
          /\ ~res.ok => res.err = ArgValueMustBeLiteral
          /\ res.ok /\ op = "try_into_lit" => res.val = arg.self.lit.inner
          /\ res.ok /\ op = "try_into_prim" => res.val = arg.self.lit.inner.value
    /\ op = "try_into_option" =>
          /\ arg.self.tag = "None" => res.ok /\ ~res.val.some
          /\ arg.self.tag # "None" =>
                /\ res.ok <=> Holds(arg.self, arg.target)
                /\ ~res.ok => res.err = ArgValueMustBeLiteral
                /\ res.ok => res.val.some /\ res.val.val = arg.self.lit.inner

\* a float literal has been refused as an optional integer literal
C9_Witness ==
    /\ op = "try_into_option"
    /\ arg.target = "Int"
    /\ arg.self.tag = "Literal"
    /\ arg.self.lit.kind = "Float"
    /\ IsErr(res, ArgValueMustBeLiteral)

\* C10: an optional literal of subtype K, made into an ArgValue and converted
\* back into the optional K, comes back as it was: absent goes to the None
\* variant and back to absent, a literal to the Literal variant of subtype K
\* and back to the same literal.
C10_OptionRoundTrip ==
    /\ op = "from_option" =>
          /\ ~arg.val.some => v.tag = "None"
          /\ arg.val.some => v.tag = "Literal" /\ v.lit.kind = arg.target
    /\ (/\ op = "try_into_option"
        /\ origin.how = "from_option"
        /\ arg.target = origin.target) =>
          /\ res.ok
          /\ res.val.some <=> origin.val.some
          /\ res.val.some => res.val.val = origin.val.val

\* a present char literal has gone through ArgValue and back
C10_Witness ==
    /\ op = "try_into_option"
    /\ origin.how = "from_option"
    /\ origin.target = "Char"
    /\ arg.target = "Char"
    /\ origin.val.some
    /\ res.ok /\ res.val.some /\ res.val.val = origin.val.val

====
